---- MODULE Spec2Model ----
(***************************************************************************)
(* A model of mdconv.py: the manifest-driven assembly of Markdown chapters *)
(* into one HTML document (worker pool, result slots, asset resolution,    *)
(* copy phase) and the H1/H2 segmentation done for the EPUB export.        *)
(*                                                                         *)
(* Strings are sequences of characters, a character being a one-token      *)
(* string ("a", ".", "/", "U+00E9", ...); a URL scheme with its colon and  *)
(* a percent escape are one token each.  Paths, URLs and attribute values  *)
(* are strings.  An HTML text is the sequence of its elements.             *)
(***************************************************************************)
EXTENDS Integers, Sequences, FiniteSets, Bags, TLC

VARIABLES
    summary,           \* SUMMARY.md: the targets of its links in order, or NoFile
    mpc,               \* position of main(): start, convert, copy, write, rest, done, abort
    files,             \* the list main() extracts from the manifest (file_info strings)
    fut,               \* state of each future of the conversion pool
    wk,                \* per task: the state local to the worker running it
    combined_parts,    \* the result slots
    all_copy_tasks,    \* copy tasks accumulated by the collecting loop: a bag, the
                       \* order of the list is never read
    unique_copy_tasks, \* the list handed to the copy pool
    copy_done,         \* per entry of unique_copy_tasks: pending, opened, ok, failed
    images,            \* build/images: file name -> what the file holds
    netOps,            \* network fetches attempted in this run, per URL
    fetchedOk,         \* URLs fetched successfully at some time (history)
    out_html,          \* the merged document written to out_html, or NoDoc
    arg,               \* input of the function under study (function specifications)
    res                \* its result

vars == <<summary, mpc, files, fut, wk, combined_parts, all_copy_tasks, unique_copy_tasks,
          copy_done, images, netOps, fetchedOk, out_html, arg, res>>

pipeVars == <<summary, mpc, files, fut, wk, combined_parts, all_copy_tasks, unique_copy_tasks,
              copy_done, images, netOps, fetchedOk, out_html>>

(***************************************************************************)
(* Bounds of the model.                                                    *)
(***************************************************************************)
MaxFiles == 3
MaxWorkers == 2
MaxChapters == 2
MaxRerunFiles == 2
MaxStr == 4
MaxDoc == 4
MaxLine == 5
MaxLines == 3

(***************************************************************************)
(* Characters and strings.                                                 *)
(***************************************************************************)
AsciiLower == {"a", "b", "d", "g", "h", "i", "j", "m", "n", "p", "s", "x"}
AsciiUpper == {"G", "A"}
AsciiDigit == {"1"}
NonAscii == {"U+00E9", "U+00C9"}
NL == "\n"

\* str.lower() on one character
LowerChar(c) ==
    CASE c = "G" -> "g"
      [] c = "A" -> "a"
      [] c = "U+00C9" -> "U+00E9"
      [] OTHER -> c

\* str.lower()
Lower(s) == [k \in 1..Len(s) |-> LowerChar(s[k])]

\* the class [A-Za-z0-9]
IsAsciiAlnum(c) == c \in AsciiLower \cup AsciiUpper \cup AsciiDigit

\* the class \w of a str pattern: letters of any script, digits, underscore
IsWord(c) == IsAsciiAlnum(c) \/ c \in NonAscii \/ c = "_"

\* s.startswith(p)
StartsWith(s, p) == Len(s) >= Len(p) /\ SubSeq(s, 1, Len(p)) = p

\* s.endswith(p)
EndsWith(s, p) == Len(s) >= Len(p) /\ SubSeq(s, Len(s) - Len(p) + 1, Len(s)) = p

RECURSIVE Join(_, _)
\* sep.join(parts) for a sequence of strings
Join(parts, sep) ==
    IF parts = <<>> THEN <<>>
    ELSE IF Len(parts) = 1 THEN parts[1]
    ELSE parts[1] \o sep \o Join(Tail(parts), sep)

RECURSIVE Concat(_)
\* ''.join(parts)
Concat(parts) == IF parts = <<>> THEN <<>> ELSE Head(parts) \o Concat(Tail(parts))

RECURSIVE SplitOn(_, _)
\* s.split(c), as the sequence of the pieces
SplitOn(s, c) ==
    IF \A k \in 1..Len(s) : s[k] # c THEN <<s>>
    ELSE LET k == CHOOSE k \in 1..Len(s) : s[k] = c /\ \A m \in 1..(k - 1) : s[m] # c
         IN <<SubSeq(s, 1, k - 1)>> \o SplitOn(SubSeq(s, k + 1, Len(s)), c)

\* hashlib.md5(s).hexdigest(): a digest is a function of the string hashed and two
\* strings of the model never share one
Md5(s) == <<"md5(">> \o s \o <<")">>

(***************************************************************************)
(* Paths and URLs (os.path, urllib.parse).                                 *)
(***************************************************************************)
\* index of the last occurrence of c in s, 0 when there is none (str.rfind + 1)
LastIndex(s, c) ==
    IF \E k \in 1..Len(s) : s[k] = c
    THEN CHOOSE k \in 1..Len(s) : s[k] = c /\ \A m \in (k + 1)..Len(s) : s[m] # c
    ELSE 0

\* index of the first occurrence of c in s, Len(s) + 1 when there is none
FirstIndex(s, c) ==
    IF \E k \in 1..Len(s) : s[k] = c
    THEN CHOOSE k \in 1..Len(s) : s[k] = c /\ \A m \in 1..(k - 1) : s[m] # c
    ELSE Len(s) + 1

\* os.path.splitext(p): <<root, ext>>; the extension starts at the last dot of
\* the last component unless only dots precede it there
SplitExt(p) ==
    LET sepIndex == LastIndex(p, "/")
        dotIndex == LastIndex(p, ".")
    IN IF dotIndex > sepIndex /\ \E k \in (sepIndex + 1)..(dotIndex - 1) : p[k] # "."
       THEN <<SubSeq(p, 1, dotIndex - 1), SubSeq(p, dotIndex, Len(p))>>
       ELSE <<p, <<>>>>

\* os.path.basename(p)
Basename(p) == SubSeq(p, LastIndex(p, "/") + 1, Len(p))

\* os.path.join(a, b)
PathJoin(a, b) ==
    IF StartsWith(b, <<"/">>) THEN b
    ELSE IF a = <<>> \/ EndsWith(a, <<"/">>) THEN a \o b
    ELSE a \o <<"/">> \o b

RECURSIVE NormSegs(_, _)
\* the component loop of os.path.normpath for an absolute path
NormSegs(segs, acc) ==
    IF segs = <<>> THEN acc
    ELSE LET c == Head(segs)
         IN IF c = <<>> \/ c = <<".">> THEN NormSegs(Tail(segs), acc)
            ELSE IF c = <<".", ".">>
                 THEN NormSegs(Tail(segs),
                               IF acc = <<>> THEN acc ELSE SubSeq(acc, 1, Len(acc) - 1))
                 ELSE NormSegs(Tail(segs), Append(acc, c))

\* the working directory of the process
Cwd == <<"/", "w">>

\* os.path.abspath(p)
AbsPath(p) == <<"/">> \o Join(NormSegs(SplitOn(PathJoin(Cwd, p), "/"), <<>>), <<"/">>)

\* urllib.parse.unquote on one token
UnquoteChar(c) ==
    CASE c = "%0A" -> NL
      [] c = "%20" -> " "
      [] OTHER -> c

\* urllib.parse.unquote
Unquote(s) == [k \in 1..Len(s) |-> UnquoteChar(s[k])]

\* urlparse(s).scheme; a scheme with its colon is one token of the string
Scheme(s) ==
    IF s # <<>> /\ s[1] \in {"https:", "http:", "mailto:"}
    THEN SubSeq(s, 1, 1) ELSE <<>>

\* urlparse(url).path of an absolute URL scheme://host/path#fragment
UrlPath(url) ==
    LET rest == IF Scheme(url) # <<>> THEN Tail(url) ELSE url
        afterHost == IF StartsWith(rest, <<"/", "/">>)
                     THEN LET r == SubSeq(rest, 3, Len(rest))
                          IN SubSeq(r, FirstIndex(r, "/"), Len(r))
                     ELSE rest
    IN SubSeq(afterHost, 1, FirstIndex(afterHost, "#") - 1)

\* re.match(r'^[A-Za-z0-9]+$', name): in Python $ also matches just before a
\* newline that ends the string
MatchAlnum(name) ==
    LET core == IF name # <<>> /\ name[Len(name)] = NL
                THEN SubSeq(name, 1, Len(name) - 1) ELSE name
    IN core # <<>> /\ \A k \in 1..Len(core) : IsAsciiAlnum(core[k])

\* re.match(r'^[A-Za-z0-9_\-]+$', name)
MatchAlnumDash(name) ==
    LET core == IF name # <<>> /\ name[Len(name)] = NL
                THEN SubSeq(name, 1, Len(name) - 1) ELSE name
    IN core # <<>> /\ \A k \in 1..Len(core) : IsAsciiAlnum(core[k]) \/ core[k] \in {"_", "-"}

(***************************************************************************)
(* Anchors.                                                                *)
(***************************************************************************)
RECURSIVE CollapseNonWord(_, _)
\* re.sub(r'[^\w]+', '-', s): inRun says that the run of non-word characters
\* being read has already given its separator
CollapseNonWord(s, inRun) ==
    IF s = <<>> THEN <<>>
    ELSE IF IsWord(Head(s)) THEN <<Head(s)>> \o CollapseNonWord(Tail(s), FALSE)
    ELSE IF inRun THEN CollapseNonWord(Tail(s), TRUE)
    ELSE <<"-">> \o CollapseNonWord(Tail(s), TRUE)

RECURSIVE StripDash(_)
\* s.strip('-')
StripDash(s) ==
    IF s = <<>> THEN s
    ELSE IF Head(s) = "-" THEN StripDash(Tail(s))
    ELSE IF s[Len(s)] = "-" THEN StripDash(SubSeq(s, 1, Len(s) - 1))
    ELSE s

\* a slug whose leading and trailing separators are kept
SlugNotStripped(text) == CollapseNonWord(Lower(text), FALSE)

\* re.sub(r'[^\w]+', '-', text.lower()).strip('-')
Slug(text) == StripDash(CollapseNonWord(Lower(text), FALSE))

(***************************************************************************)
(* Asset names.                                                            *)
(***************************************************************************)
\* IMAGES_DIR as prepare_build_dir sets it
IMAGES_DIR == <<"build", "/", "images">>

\* the prefix of a rewritten src attribute
ImagesPrefix == <<"images", "/">>

\* process_src_match, local branch: the name under images/ of a local asset
LocalNewName(abs_path) ==
    LET name == SplitExt(Basename(abs_path))[1]
        ext == SplitExt(Basename(abs_path))[2]
    IN IF ~MatchAlnum(name) THEN Md5(name) \o ext ELSE name \o ext

\* process_src_match, local branch: the copy task (abs_path, dst)
LocalCopyTask(docdir, decoded) ==
    LET abs_path == AbsPath(PathJoin(docdir, decoded))
    IN <<abs_path, PathJoin(IMAGES_DIR, LocalNewName(abs_path))>>

\* process_src_match, remote branch: the URL fetched
RemoteUrl(decoded) ==
    IF StartsWith(decoded, <<"/", "/">>) THEN <<"https:">> \o decoded ELSE decoded

\* process_src_match, remote branch: the destination tested with os.path.exists.
\* A name taken from the digest matches the pattern, so both branches of the
\* conditional give digest + ext for it.
RemoteDst(url) ==
    LET base_name == Basename(UrlPath(url))
        name == SplitExt(base_name)[1]
        ext == SplitExt(base_name)[2]
        new_name == IF name = <<>> \/ ~MatchAlnumDash(name)
                    THEN Md5(url) \o ext ELSE name \o ext
    IN PathJoin(IMAGES_DIR, new_name)

\* _guess_ext_from_content_type for the Content-Type the server declares
GuessExt(content_type) ==
    CASE content_type = "image/png" -> <<".", "p", "n", "g">>
      [] content_type = "image/gif" -> <<".", "g", "i", "f">>
      [] OTHER -> <<>>

\* download_remote_image: the path the data is written to
DownloadPath(dst_path, content_type) ==
    LET base == SplitExt(dst_path)[1]
        ext == SplitExt(dst_path)[2]
    IN IF ext = <<>> /\ GuessExt(content_type) # <<>>
       THEN base \o GuessExt(content_type) ELSE dst_path

\* process_src_match, href branch: the rewritten attribute value, or the value
\* itself when it is left alone
RewriteHref(val) ==
    LET decoded == Unquote(val)
    IN IF Scheme(decoded) # <<>> \/ StartsWith(decoded, <<"/", "/">>) THEN val
       ELSE IF EndsWith(decoded, <<".", "m", "d">>)
            THEN <<"#", "$">> \o SplitExt(decoded)[1]
       ELSE IF \E k \in 1..(Len(decoded) - 3) :
                 SubSeq(decoded, k, k + 3) = <<".", "m", "d", "#">>
            THEN <<"#", "$">> \o SplitOn(decoded, "#")[2]
       ELSE val

(***************************************************************************)
(* HTML elements and the world the program runs in.                        *)
(***************************************************************************)
\* one element of an HTML text: tag, id attribute, text, src or href attribute
El(tag, id, text, val) == [tag |-> tag, id |-> id, text |-> text, val |-> val]

\* None in a result slot, and the absence of the merged document
None == <<El("None", <<>>, <<>>, <<>>)>>
NoDoc == <<El("NoDoc", <<>>, <<>>, <<>>)>>
NoFile == <<<<"NoFile">>>>

\* the docdir argument of main
DocDir == <<"d">>

RawPrefix == "rawchaptertext:"

\* manifest targets: an inline title, two chapters, a chapter that is absent
FT == <<RawPrefix, "G", " ", "s", "!">>
FA == <<"a", ".", "m", "d">>
FB == <<"s", "/", "b", ".", "m", "d">>
FM == <<"m", ".", "m", "d">>
Targets == {FT, FA, FB, FM}

\* remote images: one whose URL has no extension, one protocol-relative
U1 == <<"https:", "/", "/", "h", "/", "p">>
U2ref == <<"/", "/", "h", "/", "j", ".", "g", "i", "f">>
U2 == <<"https:">> \o U2ref
Urls == {U1, U2}

\* the Content-Type the server declares for a URL
ContentType(url) == IF url = U1 THEN "image/png" ELSE "image/gif"

\* the text CustomRenderer gives for the Markdown of a chapter file
\* (heading: <h{level+1} id=slug>, image: <img src>, link: <a href>)
Heading(level, text) ==
    El(IF level = 1 THEN "h2" ELSE "h3", Slug(text), text, <<>>)

Rendered(path) ==
    IF path = AbsPath(PathJoin(DocDir, FA))
    THEN << Heading(1, <<"A">>),
            El("img", <<>>, <<>>, <<"i", "/", "x", ".", "p", "n", "g">>),
            El("img", <<>>, <<>>, <<".", "/", "i", "/", "x", ".", "p", "n", "g">>),
            El("img", <<>>, <<>>, U2ref),
            El("a", <<>>, <<>>, FB) >>
    ELSE << Heading(1, <<"A", " ", "b">>),
            El("img", <<>>, <<>>, <<".", ".", "/", "i", "/", "x", ".", "p", "n", "g">>),
            El("img", <<>>, <<>>, <<"x", ".", "p", "n", "g">>),
            El("img", <<>>, <<>>, U1),
            El("a", <<>>, <<>>, <<".", ".", "/", "a", ".", "m", "d", "#", "a">>) >>

\* the files of the document tree
ChapterFiles == {AbsPath(PathJoin(DocDir, FA)), AbsPath(PathJoin(DocDir, FB))}
ImageFiles == {<<"/", "w", "/", "d", "/", "i", "/", "x", ".", "p", "n", "g">>,
               <<"/", "w", "/", "d", "/", "s", "/", "x", ".", "p", "n", "g">>}

\* os.path.exists for a path of the document tree
Exists(path) == AbsPath(path) \in ChapterFiles \cup ImageFiles

\* os.path.exists for a path under build/images
ImageExists(dst) == \E f \in images : f[1] = dst

\* the file system after a write of data to dst
WriteFile(fs, dst, data) == {f \in fs : f[1] # dst} \cup {<<dst, data>>}

\* the data of the image file at path, block by block: the two images that
\* share the name x.png differ in content and in length
FileData(path) ==
    IF AbsPath(path) = <<"/", "w", "/", "d", "/", "i", "/", "x", ".", "p", "n", "g">>
    THEN <<"i1", "i2">> ELSE <<"s1">>

\* the data held at dst, nothing if there is no such file
DataAt(fs, dst) ==
    IF \E f \in fs : f[1] = dst THEN (CHOOSE f \in fs : f[1] = dst)[2] ELSE <<>>

\* open(dst, 'wb'): the file is created or cut to length zero
Truncate(fs, dst) == WriteFile(fs, dst, <<>>)

\* the data written through a descriptor of its own, from offset zero: what
\* another writer put beyond the end of data stays
WriteFromStart(fs, dst, data) ==
    LET old == DataAt(fs, dst)
    IN WriteFile(fs, dst, data \o SubSeq(old, Len(data) + 1, Len(old)))

RECURSIVE TupleSeqs(_, _)
\* the sequences over S of length at most n
TupleSeqs(S, n) ==
    IF n = 0 THEN {<<>>}
    ELSE LET shorter == TupleSeqs(S, n - 1)
         IN shorter \cup {Append(q, x) : q \in shorter, x \in S}

(***************************************************************************)
(* The worker: process_single_markdown_file and convert_local_paths_worker.*)
(***************************************************************************)
IsRemote(decoded) ==
    StartsWith(decoded, <<"/", "/">>) \/ Scheme(decoded) \in {<<"http:">>, <<"https:">>}

\* a worker that has nothing in hand
IdleWorker == [html |-> <<>>, pos |-> 0, copy_tasks |-> <<>>, phase |-> "idle",
               dir |-> <<>>, anchor |-> <<>>, ret |-> None, failed |-> {}]

\* the element at pos with its src or href attribute replaced
SetVal(html, pos, val) == [html EXCEPT ![pos].val = val]

\* re.sub(r'href="([^"]+)"', process_src_match, html_content)
RewriteHrefs(html) ==
    [k \in 1..Len(html) |->
        IF html[k].tag = "a" /\ html[k].val # <<>>
        THEN [html[k] EXCEPT !.val = RewriteHref(html[k].val)] ELSE html[k]]

RECURSIVE Advance(_)
\* re.sub(r'src="([^"]+)"', process_src_match, html_content) from element pos on:
\* local sources are rewritten and give a copy task; the substitution stops in
\* front of the next remote source (phase check) or, after the last one, goes
\* on with the href substitution and the return (phase end)
Advance(w) ==
    IF w.pos > Len(w.html)
    THEN [w EXCEPT !.html = RewriteHrefs(w.html), !.phase = "end"]
    ELSE LET e == w.html[w.pos]
             decoded == Unquote(e.val)
         IN IF e.tag # "img" \/ e.val = <<>> THEN Advance([w EXCEPT !.pos = w.pos + 1])
            ELSE IF IsRemote(decoded) THEN [w EXCEPT !.phase = "check"]
            ELSE IF Scheme(decoded) = <<>>
                 THEN LET task == LocalCopyTask(w.dir, decoded)
                      IN Advance([w EXCEPT
                              !.html = SetVal(w.html, w.pos,
                                              ImagesPrefix \o Basename(task[2])),
                              !.copy_tasks = Append(w.copy_tasks, task),
                              !.pos = w.pos + 1])
                 ELSE Advance([w EXCEPT !.pos = w.pos + 1])

\* os.path.dirname(path)
Dirname(path) == SubSeq(path, 1, LastIndex(path, "/") - 1)

\* process_single_markdown_file for an inline title
TitleFragment(file_info) ==
    LET title == Tail(file_info)
        aid == Slug(title)
    IN <<El("a", aid, <<>>, <<>>), El("h1", <<>>, title, <<>>)>>

\* a worker that skips a missing path without a trace
MissingSkipped(path) == <<>>

\* process_single_markdown_file for a path that does not exist
MissingFragment(path) == <<El("comment", <<>>, <<"Warning:">> \o path, <<>>)>>

\* the anchor a chapter file is registered under
FileAnchor(file_info) == SplitExt(file_info)[1]

\* the value process_single_markdown_file returns from a finished worker
WorkerFragment(w) == <<El("a", w.anchor, <<>>, <<>>)>> \o w.html

\* a collecting loop that logs the exception and leaves the slot as it is
ErrorDropped(file_info) == None

\* the diagnostic stored for a task that raised
ErrorFragment(file_info) == <<El("comment", <<>>, <<"Error:">> \o file_info, <<>>)>>

(***************************************************************************)
(* main and combine_markdown_to_html_parallel.                             *)
(***************************************************************************)
N == Len(files)

ZeroOps == [u \in Urls |-> 0]

\* a collecting loop that appends the results as they arrive
SlotByArrival(i, parts) ==
    1 + Cardinality({k \in 1..Len(parts) : parts[k] # None})

\* the slot the collecting loop writes for the future of task i
SlotIndex(i, parts) == i

\* all_copy_tasks.extend(copy_tasks): what a list of tasks adds to the bag
SeqToBag(tasks) ==
    [t \in {tasks[k] : k \in 1..Len(tasks)} |->
        Cardinality({k \in 1..Len(tasks) : tasks[k] = t})]

RECURSIVE BagToSeq(_)
\* a list that holds every element of the bag as often as the bag does
BagToSeq(bag) ==
    IF BagToSet(bag) = {} THEN <<>>
    ELSE LET t == CHOOSE u \in BagToSet(bag) : TRUE
         IN [k \in 1..bag[t] |-> t] \o BagToSeq([u \in BagToSet(bag) \ {t} |-> bag[u]])

\* a copy phase that submits the accumulated list as it is
KeepAllTasks(tasks) == BagToSeq(tasks)

\* list(set(all_copy_tasks)): each pair once (the order of the list is of no
\* consequence, the pool completes the copies in any order)
UniqueTasks(tasks) ==
    LET pairs == BagToSet(tasks)
    IN CHOOSE q \in [1..Cardinality(pairs) -> pairs] :
           {q[k] : k \in 1..Cardinality(pairs)} = pairs

\* the text written to out_html
Combined(parts) == Concat(parts)

\* the references of a manifest that name a chapter file of the tree
FileCount(q) == Cardinality({k \in 1..Len(q) : q[k] \in {FA, FB}})

\* the manifests of the model: at most MaxFiles references, at most
\* MaxChapters of them to a chapter file that exists
Manifests(n) == {q \in TupleSeqs(Targets, n) : FileCount(q) <= MaxChapters}

Init ==
    /\ summary \in Manifests(MaxFiles) \cup {NoFile}
    /\ mpc = "start"
    /\ files = <<>>
    /\ fut = <<>>
    /\ wk = <<>>
    /\ combined_parts = <<>>
    /\ all_copy_tasks = EmptyBag
    /\ unique_copy_tasks = <<>>
    /\ copy_done = <<>>
    /\ images = {}
    /\ netOps = ZeroOps
    /\ fetchedOk = {}
    /\ out_html = NoDoc
    /\ arg = <<>>
    /\ res = <<>>

\* a main that takes a manifest it cannot open for an empty one
ManifestIgnored ==
    /\ mpc = "start"
    /\ summary = NoFile
    /\ images' = {}
    /\ out_html' = NoDoc
    /\ files' = <<>>
    /\ mpc' = "convert"
    /\ UNCHANGED <<summary, fut, wk, combined_parts, all_copy_tasks,
                   unique_copy_tasks, copy_done, netOps, fetchedOk, arg, res>>

\* main: prepare_build_dir, then the manifest cannot be opened
ManifestMissing ==
    /\ mpc = "start"
    /\ summary = NoFile
    /\ images' = {}
    /\ out_html' = NoDoc
    /\ mpc' = "abort"
    /\ UNCHANGED <<summary, files, fut, wk, combined_parts, all_copy_tasks,
                   unique_copy_tasks, copy_done, netOps, fetchedOk, arg, res>>

\* main up to the submission of the tasks: prepare_build_dir, the manifest is
\* read, the slots are allocated and every task is submitted
ReadManifest ==
    /\ mpc = "start"
    /\ summary # NoFile
    /\ images' = {}
    /\ out_html' = NoDoc
    /\ files' = summary
    /\ fut' = [i \in 1..Len(summary) |-> "pending"]
    /\ wk' = [i \in 1..Len(summary) |-> IdleWorker]
    /\ combined_parts' = [i \in 1..Len(summary) |-> None]
    /\ all_copy_tasks' = EmptyBag
    /\ unique_copy_tasks' = <<>>
    /\ copy_done' = <<>>
    /\ netOps' = ZeroOps
    /\ mpc' = "convert"
    /\ UNCHANGED <<summary, fetchedOk, arg, res>>

\* the pool hands task i to a free worker, in submission order
Dispatchable(i) ==
    /\ mpc = "convert"
    /\ i \in 1..N
    /\ fut[i] = "pending"
    /\ \A j \in 1..(i - 1) : fut[j] # "pending"
    /\ Cardinality({j \in 1..N : fut[j] = "running"}) < MaxWorkers

\* the worker state and future state once the worker has reached w
Settle(i, w) ==
    /\ wk' = [wk EXCEPT ![i] = IF w.phase = "end"
                               THEN [w EXCEPT !.ret = WorkerFragment(w)] ELSE w]
    /\ fut' = [fut EXCEPT ![i] = IF w.phase = "end" THEN "returned" ELSE "running"]

\* process_single_markdown_file on an inline title
StartTitle(i) ==
    /\ Dispatchable(i)
    /\ Head(files[i]) = RawPrefix
    /\ wk' = [wk EXCEPT ![i] = [IdleWorker EXCEPT !.phase = "end",
                                                  !.ret = TitleFragment(files[i])]]
    /\ fut' = [fut EXCEPT ![i] = "returned"]
    /\ UNCHANGED <<summary, mpc, files, combined_parts, all_copy_tasks, unique_copy_tasks,
                   copy_done, images, netOps, fetchedOk, out_html, arg, res>>

\* process_single_markdown_file on a path that does not exist
StartMissing(i) ==
    /\ Dispatchable(i)
    /\ Head(files[i]) # RawPrefix
    /\ ~Exists(PathJoin(DocDir, files[i]))
    /\ wk' = [wk EXCEPT ![i] = [IdleWorker EXCEPT
                  !.phase = "end",
                  !.ret = MissingFragment(PathJoin(DocDir, files[i]))]]
    /\ fut' = [fut EXCEPT ![i] = "returned"]
    /\ UNCHANGED <<summary, mpc, files, combined_parts, all_copy_tasks, unique_copy_tasks,
                   copy_done, images, netOps, fetchedOk, out_html, arg, res>>

\* process_single_markdown_file on a chapter file: read, render, then the src
\* substitution up to its first remote image
StartFile(i) ==
    /\ Dispatchable(i)
    /\ Head(files[i]) # RawPrefix
    /\ Exists(PathJoin(DocDir, files[i]))
    /\ LET path == PathJoin(DocDir, files[i])
       IN Settle(i, Advance([IdleWorker EXCEPT
                                 !.html = Rendered(AbsPath(path)),
                                 !.pos = 1,
                                 !.dir = Dirname(path),
                                 !.anchor = FileAnchor(files[i])]))
    /\ UNCHANGED <<summary, mpc, files, combined_parts, all_copy_tasks, unique_copy_tasks,
                   copy_done, images, netOps, fetchedOk, out_html, arg, res>>

\* process_single_markdown_file raises (read_markdown_file fails)
ReadFails(i) ==
    /\ Dispatchable(i)
    /\ Head(files[i]) # RawPrefix
    /\ Exists(PathJoin(DocDir, files[i]))
    /\ fut' = [fut EXCEPT ![i] = "raised"]
    /\ wk' = [wk EXCEPT ![i].phase = "raised"]
    /\ UNCHANGED <<summary, mpc, files, combined_parts, all_copy_tasks,
                   unique_copy_tasks, copy_done, images, netOps, fetchedOk, out_html,
                   arg, res>>

\* process_single_markdown_file raises in the middle of the src substitution,
\* in process_src_match on the value the worker stands in front of: the
\* fragment and the copy tasks the worker had in hand are lost with it
ConvertFails(i) ==
    /\ mpc = "convert"
    /\ i \in 1..N
    /\ fut[i] = "running"
    /\ wk[i].phase = "check"
    /\ fut' = [fut EXCEPT ![i] = "raised"]
    /\ wk' = [wk EXCEPT ![i] = [IdleWorker EXCEPT !.phase = "raised"]]
    /\ UNCHANGED <<summary, mpc, files, combined_parts, all_copy_tasks,
                   unique_copy_tasks, copy_done, images, netOps, fetchedOk, out_html,
                   arg, res>>

\* the URL of the remote image worker i stands in front of
UrlAt(i) == RemoteUrl(Unquote(wk[i].html[wk[i].pos].val))

\* process_src_match, remote branch: the test os.path.exists(dst)
RemoteCheck(i) ==
    /\ i \in 1..N
    /\ fut[i] = "running"
    /\ wk[i].phase = "check"
    /\ LET w == wk[i]
           dst == RemoteDst(UrlAt(i))
       IN IF ImageExists(dst)
          THEN Settle(i, Advance([w EXCEPT
                     !.html = SetVal(w.html, w.pos, ImagesPrefix \o Basename(dst)),
                     !.pos = w.pos + 1]))
          ELSE /\ wk' = [wk EXCEPT ![i].phase = "fetch"]
               /\ UNCHANGED fut
    /\ UNCHANGED <<summary, mpc, files, combined_parts, all_copy_tasks, unique_copy_tasks,
                   copy_done, images, netOps, fetchedOk, out_html, arg, res>>

\* download_remote_image succeeds: the data is written and the src rewritten
FetchOk(i) ==
    /\ i \in 1..N
    /\ fut[i] = "running"
    /\ wk[i].phase = "fetch"
    /\ LET w == wk[i]
           url == UrlAt(i)
           downloaded_path == DownloadPath(RemoteDst(url), ContentType(url))
       IN /\ images' = WriteFile(images, downloaded_path, url)
          /\ netOps' = [netOps EXCEPT ![url] = @ + 1]
          /\ fetchedOk' = fetchedOk \cup {url}
          /\ Settle(i, Advance([w EXCEPT
                 !.html = SetVal(w.html, w.pos,
                                 ImagesPrefix \o Basename(downloaded_path)),
                 !.pos = w.pos + 1]))
    /\ UNCHANGED <<summary, mpc, files, combined_parts, all_copy_tasks, unique_copy_tasks,
                   copy_done, out_html, arg, res>>

\* a substitution that points the src at the canonical name although the
\* fetch failed
RewriteAnyway(w, url) ==
    [w EXCEPT !.html = SetVal(w.html, w.pos, ImagesPrefix \o Basename(RemoteDst(url))),
              !.failed = @ \cup {w.pos},
              !.pos = w.pos + 1]

\* process_src_match when download_remote_image gave an error: return original
KeepOriginal(w, url) ==
    [w EXCEPT !.failed = @ \cup {w.pos}, !.pos = w.pos + 1]

\* download_remote_image fails before the destination is opened (the request,
\* the read, makedirs or the open itself raises): the src is left as it was
FetchFails(i) ==
    /\ i \in 1..N
    /\ fut[i] = "running"
    /\ wk[i].phase = "fetch"
    /\ netOps' = [netOps EXCEPT ![UrlAt(i)] = @ + 1]
    /\ Settle(i, Advance(KeepOriginal(wk[i], UrlAt(i))))
    /\ UNCHANGED <<summary, mpc, files, combined_parts, all_copy_tasks, unique_copy_tasks,
                   copy_done, images, fetchedOk, out_html, arg, res>>

\* download_remote_image fails in f.write(data): open(dst_path, 'wb') has
\* created the file, the exception is caught and the file stays, cut short
FetchPartial(i) ==
    /\ i \in 1..N
    /\ fut[i] = "running"
    /\ wk[i].phase = "fetch"
    /\ LET url == UrlAt(i)
           downloaded_path == DownloadPath(RemoteDst(url), ContentType(url))
       IN /\ images' = Truncate(images, downloaded_path)
          /\ netOps' = [netOps EXCEPT ![url] = @ + 1]
          /\ Settle(i, Advance(KeepOriginal(wk[i], url)))
    /\ UNCHANGED <<summary, mpc, files, combined_parts, all_copy_tasks, unique_copy_tasks,
                   copy_done, fetchedOk, out_html, arg, res>>

\* a collecting loop that stores the fragment and drops the copy tasks
CollectWithoutTasks(i) ==
    /\ mpc = "convert"
    /\ i \in 1..N
    /\ fut[i] = "returned"
    /\ combined_parts' = [combined_parts EXCEPT
                             ![SlotIndex(i, combined_parts)] = wk[i].ret]
    /\ fut' = [fut EXCEPT ![i] = "collected"]
    /\ UNCHANGED <<summary, mpc, files, wk, all_copy_tasks, unique_copy_tasks, copy_done,
                   images, netOps, fetchedOk, out_html, arg, res>>

\* the collecting loop takes a future that returned
CollectResult(i) ==
    /\ mpc = "convert"
    /\ i \in 1..N
    /\ fut[i] = "returned"
    /\ combined_parts' = [combined_parts EXCEPT
                             ![SlotIndex(i, combined_parts)] = wk[i].ret]
    /\ all_copy_tasks' = all_copy_tasks (+) SeqToBag(wk[i].copy_tasks)
    /\ fut' = [fut EXCEPT ![i] = "collected"]
    /\ UNCHANGED <<summary, mpc, files, wk, unique_copy_tasks, copy_done, images, netOps,
                   fetchedOk, out_html, arg, res>>

\* the collecting loop takes a future that raised
CollectError(i) ==
    /\ mpc = "convert"
    /\ i \in 1..N
    /\ fut[i] = "raised"
    /\ combined_parts' = [combined_parts EXCEPT
                             ![SlotIndex(i, combined_parts)] = ErrorFragment(files[i])]
    /\ fut' = [fut EXCEPT ![i] = "collected"]
    /\ UNCHANGED <<summary, mpc, files, wk, all_copy_tasks, unique_copy_tasks, copy_done,
                   images, netOps, fetchedOk, out_html, arg, res>>

\* a collecting loop that is left as soon as one future has been taken
SomeCollected == \E i \in 1..N : fut[i] = "collected"

AllCollected == \A i \in 1..N : fut[i] = "collected"

\* the conversion pool is left with copy tasks: they are deduplicated and submitted
BeginCopy ==
    /\ mpc = "convert"
    /\ AllCollected
    /\ all_copy_tasks # EmptyBag
    /\ unique_copy_tasks' = UniqueTasks(all_copy_tasks)
    /\ copy_done' = [k \in 1..Len(UniqueTasks(all_copy_tasks)) |-> "pending"]
    /\ mpc' = "copy"
    /\ UNCHANGED <<summary, files, fut, wk, combined_parts, all_copy_tasks, images, netOps,
                   fetchedOk, out_html, arg, res>>

\* the conversion pool is left without copy tasks
SkipCopy ==
    /\ mpc = "convert"
    /\ AllCollected
    /\ all_copy_tasks = EmptyBag
    /\ mpc' = "write"
    /\ UNCHANGED <<summary, files, fut, wk, combined_parts, all_copy_tasks,
                   unique_copy_tasks, copy_done, images, netOps, fetchedOk, out_html,
                   arg, res>>

\* copy_single_image, shutil.copy opens the source and then the destination
\* for writing: the destination is created or cut to length zero
CopyOpen(k) ==
    /\ mpc = "copy"
    /\ k \in 1..Len(unique_copy_tasks)
    /\ copy_done[k] = "pending"
    /\ Exists(unique_copy_tasks[k][1])
    /\ images' = Truncate(images, unique_copy_tasks[k][2])
    /\ copy_done' = [copy_done EXCEPT ![k] = "opened"]
    /\ UNCHANGED <<summary, mpc, files, fut, wk, combined_parts, all_copy_tasks,
                   unique_copy_tasks, netOps, fetchedOk, out_html, arg, res>>

\* copy_single_image, shutil.copy writes the data of the source through its
\* descriptor and returns: (True, src)
CopyOk(k) ==
    /\ mpc = "copy"
    /\ k \in 1..Len(unique_copy_tasks)
    /\ copy_done[k] = "opened"
    /\ images' = WriteFromStart(images, unique_copy_tasks[k][2],
                                FileData(unique_copy_tasks[k][1]))
    /\ copy_done' = [copy_done EXCEPT ![k] = "ok"]
    /\ UNCHANGED <<summary, mpc, files, fut, wk, combined_parts, all_copy_tasks,
                   unique_copy_tasks, netOps, fetchedOk, out_html, arg, res>>

\* a copy phase that lets the exception of a copy end the run
CopyAborts(k) ==
    /\ mpc = "copy"
    /\ k \in 1..Len(unique_copy_tasks)
    /\ copy_done[k] \in {"pending", "opened"}
    /\ copy_done' = [copy_done EXCEPT ![k] = "failed"]
    /\ mpc' = "abort"
    /\ UNCHANGED <<summary, files, fut, wk, combined_parts, all_copy_tasks,
                   unique_copy_tasks, images, netOps, fetchedOk, out_html, arg, res>>

\* copy_single_image catches the exception of shutil.copy, raised before the
\* destination is opened or while the data is written
CopyFails(k) ==
    /\ mpc = "copy"
    /\ k \in 1..Len(unique_copy_tasks)
    /\ copy_done[k] \in {"pending", "opened"}
    /\ copy_done' = [copy_done EXCEPT ![k] = "failed"]
    /\ UNCHANGED <<summary, mpc, files, fut, wk, combined_parts, all_copy_tasks,
                   unique_copy_tasks, images, netOps, fetchedOk, out_html, arg, res>>

\* the copy pool is left
EndCopy ==
    /\ mpc = "copy"
    /\ \A k \in 1..Len(unique_copy_tasks) : copy_done[k] \in {"ok", "failed"}
    /\ mpc' = "write"
    /\ UNCHANGED <<summary, files, fut, wk, combined_parts, all_copy_tasks,
                   unique_copy_tasks, copy_done, images, netOps, fetchedOk, out_html,
                   arg, res>>

\* the slots are joined and written to out_html
WriteHtml ==
    /\ mpc = "write"
    /\ out_html' = Combined(combined_parts)
    /\ mpc' = "rest"
    /\ UNCHANGED <<summary, files, fut, wk, combined_parts, all_copy_tasks,
                   unique_copy_tasks, copy_done, images, netOps, fetchedOk, arg, res>>

\* main after combine_markdown_to_html_parallel: the exports, then the exit
MainRest ==
    /\ mpc = "rest"
    /\ mpc' = "done"
    /\ UNCHANGED <<summary, files, fut, wk, combined_parts, all_copy_tasks,
                   unique_copy_tasks, copy_done, images, netOps, fetchedOk, out_html,
                   arg, res>>

\* the program is run again on the same document tree
Rerun ==
    /\ mpc = "done"
    /\ mpc' = "start"
    /\ UNCHANGED <<summary, files, fut, wk, combined_parts, all_copy_tasks,
                   unique_copy_tasks, copy_done, images, netOps, fetchedOk, out_html,
                   arg, res>>

Next ==
    \/ ManifestMissing
    \/ ReadManifest
    \/ \E i \in 1..N : StartTitle(i)
    \/ \E i \in 1..N : StartMissing(i)
    \/ \E i \in 1..N : StartFile(i)
    \/ \E i \in 1..N : ReadFails(i)
    \/ \E i \in 1..N : ConvertFails(i)
    \/ \E i \in 1..N : RemoteCheck(i)
    \/ \E i \in 1..N : FetchOk(i)
    \/ \E i \in 1..N : FetchFails(i)
    \/ \E i \in 1..N : FetchPartial(i)
    \/ \E i \in 1..N : CollectResult(i)
    \/ \E i \in 1..N : CollectError(i)
    \/ BeginCopy
    \/ SkipCopy
    \/ \E k \in 1..Len(unique_copy_tasks) : CopyOpen(k)
    \/ \E k \in 1..Len(unique_copy_tasks) : CopyOk(k)
    \/ \E k \in 1..Len(unique_copy_tasks) : CopyFails(k)
    \/ EndCopy
    \/ WriteHtml
    \/ MainRest

Spec == Init /\ [][Next]_vars

(***************************************************************************)
(* The program run again and again on one document tree.                   *)
(***************************************************************************)
InitRerun ==
    /\ Init
    /\ summary \in Manifests(MaxRerunFiles) \cup {NoFile}

NextRerun == Next \/ Rerun

SpecRerun == InitRerun /\ [][NextRerun]_vars

(***************************************************************************)
(* One run under fair scheduling: a worker that holds a task goes on, a    *)
(* task that is waiting is handed to a worker that becomes free, and the   *)
(* main process goes on whenever a future it waits for has completed.      *)
(***************************************************************************)
SpecFair == InitRerun /\ [][Next]_vars /\ WF_vars(Next)

(***************************************************************************)
(* generate_epub_with_ebooklib: the split of the document at H1 and H2.    *)
(***************************************************************************)
\* a segmenter that splits at H1 only
IsTopHeader(e) == e.tag = "h1"

\* the elements soup.find_all(['h1', 'h2']) selects
IsHeader(e) == e.tag \in {"h1", "h2"}

\* the positions of the headers in document order
HeaderPositions(soup) == {k \in 1..Len(soup) : IsHeader(soup[k])}

\* the position of the idx-th header
HeaderAt(soup, idx) ==
    CHOOSE k \in HeaderPositions(soup) :
        Cardinality({m \in HeaderPositions(soup) : m <= k}) = idx

\* the header and its next siblings up to the next h1 or h2
ChapterContent(soup, k) ==
    LET stop == IF \E m \in (k + 1)..Len(soup) : IsHeader(soup[m])
                THEN CHOOSE m \in (k + 1)..Len(soup) :
                         IsHeader(soup[m]) /\ \A n \in (k + 1)..(m - 1) : ~IsHeader(soup[n])
                ELSE Len(soup) + 1
    IN SubSeq(soup, k, stop - 1)

\* the list chapters: one EpubHtml per header
Chapters(soup) ==
    [idx \in 1..Cardinality(HeaderPositions(soup)) |->
        [title |-> soup[HeaderAt(soup, idx)].text,
         file_name |-> idx,
         content |-> ChapterContent(soup, HeaderAt(soup, idx))]]

RECURSIVE Ancestors(_, _)
\* a document with nesting is the sequence of its elements in document order
\* and, for each element, the position of its parent (0 at the top level);
\* the elements that hold the element at position k
Ancestors(parent, k) ==
    IF parent[k] = 0 THEN {} ELSE {parent[k]} \cup Ancestors(parent, parent[k])

\* header.next_siblings: the later elements with the parent of the header
NextSiblings(parent, k) == {m \in (k + 1)..Len(parent) : parent[m] = parent[k]}

\* str(tag): the element and everything it holds
Subtree(parent, k) == {k} \cup {m \in (k + 1)..Len(parent) : k \in Ancestors(parent, m)}

\* content: the header, then its next siblings as far as the first sibling
\* named h1 or h2, each with everything it holds
ContentPositions(soup, parent, k) ==
    LET sibs == NextSiblings(parent, k)
        kept == {m \in sibs : \A n \in sibs : n <= m => ~IsHeader(soup[n])}
    IN Subtree(parent, k) \cup UNION {Subtree(parent, m) : m \in kept}

\* the elements of soup at the positions S, in document order
ElementsAt(soup, S) ==
    [i \in 1..Cardinality(S) |->
        soup[CHOOSE k \in S : Cardinality({m \in S : m <= k}) = i]]

\* the list chapters of a document with nesting: find_all selects the h1 and
\* h2 elements at every depth, in document order
TreeChapters(soup, parent) ==
    [idx \in 1..Cardinality(HeaderPositions(soup)) |->
        [title |-> soup[HeaderAt(soup, idx)].text,
         file_name |-> idx,
         content |-> ElementsAt(soup, ContentPositions(soup, parent, HeaderAt(soup, idx)))]]

\* a node of the table of contents
TocNode(kind, title, children) == [kind |-> kind, title |-> title, children |-> children]

\* book.toc = tuple(chapters): one link per chapter
BookToc(chapters) ==
    [k \in 1..Len(chapters) |-> TocNode("chapter", chapters[k].title, <<>>)]

(***************************************************************************)
(* Specifications that apply one function to inputs drawn from bounded     *)
(* sets; the pipeline stands still in them.                                *)
(***************************************************************************)
PipelineOff ==
    /\ summary = NoFile
    /\ mpc = "off"
    /\ files = <<>>
    /\ fut = <<>>
    /\ wk = <<>>
    /\ combined_parts = <<>>
    /\ all_copy_tasks = EmptyBag
    /\ unique_copy_tasks = <<>>
    /\ copy_done = <<>>
    /\ images = {}
    /\ netOps = ZeroOps
    /\ fetchedOk = {}
    /\ out_html = NoDoc

\* the nonempty strings over S of length at most n
Strings(S, n) == TupleSeqs(S, n) \ {<<>>}

\* file names: plain, non-ASCII, with a separator, with an extension, with an
\* escaped newline; a reference names a file, so not "." or ".."
NameChars == {"a", "1", "U+00E9", "-", ".", "%0A"}
FileNames == {b \in Strings(NameChars, MaxStr) : \E k \in 1..Len(b) : b[k] # "."}

InitNames ==
    /\ PipelineOff
    /\ arg \in {<<dir, prefix \o b>> :
                   dir \in {DocDir, PathJoin(DocDir, <<"s">>)},
                   prefix \in {<<>>, <<"i", "/">>},
                   b \in FileNames}
    /\ res = <<>>

\* convert_local_paths_worker on a fragment that holds one local image
ResolveImage ==
    /\ res = <<>>
    /\ LET w == Advance([IdleWorker EXCEPT
                            !.html = <<El("img", <<>>, <<>>, arg[2])>>,
                            !.pos = 1,
                            !.dir = arg[1]])
       IN res' = [src |-> w.html[1].val, copy_tasks |-> w.copy_tasks]
    /\ UNCHANGED <<pipeVars, arg>>

SpecNames == InitNames /\ [][ResolveImage]_vars

TitleChars == {"G", "s", " ", "!", "_", "-", "U+00C9"}

InitAnchor ==
    /\ PipelineOff
    /\ arg \in {<<RawPrefix>> \o t : t \in Strings(TitleChars, MaxStr)}
               \cup {t \o <<".", "m", "d">> : t \in Strings(TitleChars, MaxStr)}
    /\ res = <<>>

\* process_single_markdown_file on an inline title, or on a chapter file
\* that exists and is empty
ProcessSingle ==
    /\ res = <<>>
    /\ res' = IF Head(arg) = RawPrefix
              THEN TitleFragment(arg)
              ELSE WorkerFragment(Advance([IdleWorker EXCEPT
                                              !.pos = 1,
                                              !.dir = DocDir,
                                              !.anchor = FileAnchor(arg)]))
    /\ UNCHANGED <<pipeVars, arg>>

SpecAnchor == InitAnchor /\ [][ProcessSingle]_vars

\* documents: one to MaxDoc sibling elements, the k-th with the k-th letter as text
Letters == <<"A", "B", "C", "D", "E", "F">>
DocTags == {"h1", "h2", "h3", "p"}

InitSeg ==
    /\ PipelineOff
    /\ arg \in {[k \in 1..Len(tags) |-> El(tags[k], <<>>, <<Letters[k]>>, <<>>)] :
                   tags \in Strings(DocTags, MaxDoc)}
    /\ res = <<>>

\* generate_epub_with_ebooklib: the chapters and the table of contents
Segment ==
    /\ res = <<>>
    /\ res' = [chapters |-> Chapters(arg), toc |-> BookToc(Chapters(arg))]
    /\ UNCHANGED <<pipeVars, arg>>

SpecSeg == InitSeg /\ [][Segment]_vars

\* documents with nesting: one to MaxDoc elements in document order; a block
\* quote may hold the elements that follow it, a heading or a paragraph holds
\* no element
TreeTags == {"h1", "h2", "p", "blockquote"}
IsNesting(tags, parent) ==
    /\ \A k \in 1..Len(tags) : parent[k] < k
    /\ \A k \in 1..Len(tags) :
          parent[k] # 0 =>
              /\ tags[parent[k]] = "blockquote"
              /\ parent[k] = k - 1 \/ parent[k] \in Ancestors(parent, k - 1)
TreeDocs ==
    UNION {{[soup |-> [k \in 1..Len(tags) |-> El(tags[k], <<>>, <<Letters[k]>>, <<>>)],
             parent |-> parent] :
               parent \in {p \in [1..Len(tags) -> 0..(Len(tags) - 1)] : IsNesting(tags, p)}} :
           tags \in Strings(TreeTags, MaxDoc)}

InitTree ==
    /\ PipelineOff
    /\ arg \in TreeDocs
    /\ res = <<>>

\* generate_epub_with_ebooklib on a document with nesting
SegmentTree ==
    /\ res = <<>>
    /\ LET chapters == TreeChapters(arg.soup, arg.parent)
       IN res' = [chapters |-> chapters, toc |-> BookToc(chapters)]
    /\ UNCHANGED <<pipeVars, arg>>

SpecTree == InitTree /\ [][SegmentTree]_vars

(***************************************************************************)
(* main: from the text of the manifest to the list of references.  The     *)
(* manifest is the sequence of its lines; neither pattern matches across a *)
(* line end, so both substitutions work line by line.                      *)
(***************************************************************************)
Min(S) == CHOOSE x \in S : \A y \in S : x <= y
Max(S) == CHOOSE x \in S : \A y \in S : x >= y

\* where r'## (.+?)$' matches in a line: the first "## " that has a
\* character after it, 0 when there is none
HeadingStart(line) ==
    LET ks == {k \in 1..(Len(line) - 3) : SubSeq(line, k, k + 2) = <<"#", "#", " ">>}
    IN IF ks = {} THEN 0 ELSE Min(ks)

\* re.sub(r'## (.+?)$', r'[\1](rawchaptertext:\1)', content, flags=re.MULTILINE)
\* on one line: the group runs to the end of the line
RewriteHeading(line) ==
    LET k == HeadingStart(line)
        title == SubSeq(line, k + 3, Len(line))
    IN IF k = 0 THEN line
       ELSE SubSeq(line, 1, k - 1) \o <<"[">> \o title \o <<"]", "(", RawPrefix>>
                \o title \o <<")">>

\* r'\[.*?\]\((.*?)\)' matches from s with "](" at i and the closing ")" at j
LinkMatch(line, s, i, j) ==
    /\ line[s] = "["
    /\ s < i /\ i < Len(line)
    /\ line[i] = "]" /\ line[i + 1] = "("
    /\ i + 2 <= j /\ j <= Len(line)
    /\ line[j] = ")"

RECURSIVE FindAllLast(_, _)
\* a pattern whose group is greedy: the target runs to the last ")" of the line
FindAllLast(line, p) ==
    LET n == Len(line)
        starts == {s \in p..n : \E i \in (s + 1)..n : \E j \in (i + 2)..n :
                                    LinkMatch(line, s, i, j)}
    IN IF starts = {} THEN <<>>
       ELSE LET s == Min(starts)
                i == Min({x \in (s + 1)..n : \E j \in (x + 2)..n : LinkMatch(line, s, x, j)})
                j == Max({y \in (i + 2)..n : LinkMatch(line, s, i, y)})
            IN <<SubSeq(line, i + 2, j - 1)>> \o FindAllLast(line, j + 1)

RECURSIVE FindAllFrom(_, _)
\* re.findall(r'\[.*?\]\((.*?)\)', line) from position p on: the leftmost
\* start that has a match, then the shortest label and the shortest target
FindAllFrom(line, p) ==
    LET n == Len(line)
        starts == {s \in p..n : \E i \in (s + 1)..n : \E j \in (i + 2)..n :
                                    LinkMatch(line, s, i, j)}
    IN IF starts = {} THEN <<>>
       ELSE LET s == Min(starts)
                i == Min({x \in (s + 1)..n : \E j \in (x + 2)..n : LinkMatch(line, s, x, j)})
                j == Min({y \in (i + 2)..n : LinkMatch(line, s, i, y)})
            IN <<SubSeq(line, i + 2, j - 1)>> \o FindAllFrom(line, j + 1)

\* files = re.findall(..., summary_md) with summary_md the rewritten manifest
ParseManifest(lines) ==
    Concat([n \in 1..Len(lines) |-> FindAllFrom(RewriteHeading(lines[n]), 1)])

\* manifests: one line of at most MaxLine characters, or at most MaxLines
\* lines out of a heading, links, two links on one line and plain text
ManifestChars == {"#", " ", "[", "]", "(", ")", "t"}
LineHeading == <<"#", "#", " ", "t">>
LineLinkA == <<"[", "t", "]", "(", "a", ")">>
LineLinkB == <<"[", "t", "]", "(", "b", ")">>
LineTwoLinks == LineLinkA \o <<" ">> \o LineLinkB
LineText == <<"t", " ", "t">>
LineSamples == {LineHeading, LineLinkA, LineLinkB, LineTwoLinks, LineText}

InitManifest ==
    /\ PipelineOff
    /\ arg \in {<<line>> : line \in Strings(ManifestChars, MaxLine)}
               \cup TupleSeqs(LineSamples, MaxLines)
    /\ res = <<>>

\* main from the manifest text to the submission: the rewritten manifest, the
\* list of references, the tasks with their index and the empty slots
ReadReferences ==
    /\ res = <<>>
    /\ LET listed == ParseManifest(arg)
       IN res' = [summary_md |-> [n \in 1..Len(arg) |-> RewriteHeading(arg[n])],
                  files |-> listed,
                  future_to_index |-> [k \in 1..Len(listed) |-> <<k - 1, listed[k]>>],
                  combined_parts |-> [k \in 1..Len(listed) |-> None]]
    /\ UNCHANGED <<pipeVars, arg>>

SpecManifest == InitManifest /\ [][ReadReferences]_vars

(***************************************************************************)
(* Properties of the assembly pipeline (specification Spec).               *)
(***************************************************************************)
Written == mpc \in {"rest", "done"}
ConversionOver == mpc \in {"copy", "write", "rest", "done"}

\* what the task of reference i produced: its return value, or the diagnostic
\* of the exception it raised
TaskOutcome(i) ==
    IF wk[i].phase = "raised" THEN <<El("comment", <<>>, <<"Error:">> \o files[i], <<>>)>>
    ELSE wk[i].ret

IsFile(i) == Head(files[i]) # RawPrefix
IsMissing(i) == IsFile(i) /\ ~Exists(PathJoin(DocDir, files[i]))
IsConverted(i) == IsFile(i) /\ ~IsMissing(i) /\ wk[i].phase = "end"

\* C1: whatever the order in which the tasks complete and are collected, the
\* document written is the concatenation, in manifest order 1..N, of what
\* the task of each reference produced
C1_OrderPreserved ==
    Written =>
        /\ out_html = Concat([i \in 1..N |-> TaskOutcome(i)])
        /\ \A i \in 1..N : \A j \in (i + 1)..N :
              LET start(k) == Len(Concat([m \in 1..(k - 1) |-> TaskOutcome(m)]))
              IN /\ start(i) + Len(TaskOutcome(i)) <= start(j)
                 /\ SubSeq(out_html, start(j) + 1, start(j) + Len(TaskOutcome(j)))
                        = TaskOutcome(j)

C1_Witness ==
    /\ Written
    /\ N = 3
    /\ \A i \in 1..N : \A j \in 1..N : i # j => TaskOutcome(i) # TaskOutcome(j)

\* C2: a task that raises costs its own slot only: once the conversion phase
\* is over no slot is empty, the slot of a task that raised holds the
\* diagnostic of that reference and every other slot holds the return value of
\* its own task
C2_FailureIsolated ==
    ConversionOver =>
        \A i \in 1..N :
            /\ combined_parts[i] # None
            /\ wk[i].phase = "raised"
                  => /\ Len(combined_parts[i]) = 1
                     /\ combined_parts[i][1].tag = "comment"
                     /\ combined_parts[i][1].text = <<"Error:">> \o files[i]
            /\ wk[i].phase # "raised"
                  => /\ wk[i].phase = "end"
                     /\ combined_parts[i] = wk[i].ret

C2_Witness ==
    /\ ConversionOver
    /\ \E i \in 1..N : \E j \in 1..N :
          /\ wk[i].phase = "raised"
          /\ i < j
          /\ IsConverted(j)
          /\ combined_parts[j] = wk[j].ret
          /\ Len(combined_parts[j]) > 1

\* the number of placeholders of a missing file in a text
WarningCount(html) ==
    Cardinality({k \in 1..Len(html) :
                    html[k].tag = "comment" /\ Head(html[k].text) = "Warning:"})

\* C3: a manifest that is present never leads to the abort, and the document
\* written holds, at the position of every reference to a missing file, one
\* placeholder naming that path and nothing else, with the fragments of the
\* other references around it in manifest order
C3_MissingFileDegrades ==
    /\ summary # NoFile => mpc # "abort"
    /\ Written =>
          /\ out_html = Concat([i \in 1..N |->
                            IF IsMissing(i)
                            THEN <<El("comment", <<>>,
                                      <<"Warning:">> \o PathJoin(DocDir, files[i]), <<>>)>>
                            ELSE TaskOutcome(i)])
          /\ WarningCount(out_html) = Cardinality({i \in 1..N : IsMissing(i)})

C3_Witness ==
    /\ mpc = "done"
    /\ N = 3
    /\ IsConverted(1)
    /\ IsMissing(2)
    /\ ~IsFile(3)
    /\ WarningCount(out_html) = 1

\* C4: the list handed to the copy pool holds every (source, dest) pair that
\* some chapter emitted, and holds it once
C4_CopyTasksDeduplicated ==
    mpc \in {"copy", "write", "rest", "done"} /\ all_copy_tasks # EmptyBag =>
        /\ \A k \in 1..Len(unique_copy_tasks) : \A l \in 1..Len(unique_copy_tasks) :
              unique_copy_tasks[k] = unique_copy_tasks[l] => k = l
        /\ {unique_copy_tasks[k] : k \in 1..Len(unique_copy_tasks)}
              = BagToSet(all_copy_tasks)
        /\ Len(copy_done) = Len(unique_copy_tasks)

C4_Witness ==
    /\ mpc = "write"
    /\ BagCardinality(all_copy_tasks) > Len(unique_copy_tasks)
    /\ \E i \in 1..N : \E j \in 1..N :
          /\ files[i] # files[j]
          /\ \E a \in 1..Len(wk[i].copy_tasks) : \E b \in 1..Len(wk[j].copy_tasks) :
                wk[i].copy_tasks[a] = wk[j].copy_tasks[b]
    /\ \E i \in 1..N : \E a \in 1..Len(wk[i].copy_tasks) :
          \E b \in (a + 1)..Len(wk[i].copy_tasks) :
              wk[i].copy_tasks[a] = wk[i].copy_tasks[b]
    /\ \A k \in 1..Len(copy_done) : copy_done[k] = "ok"

\* the ids a text defines
IdsOf(html) == {html[k].id : k \in 1..Len(html)} \ {<<>>}

\* C7: in the document written, wherever a converted chapter links to the
\* source file of another converted chapter of the manifest, the rewritten
\* href is "#" followed by the id of the anchor that opens the fragment of
\* the target chapter
C7_LinksResolve ==
    Written =>
        \A i \in 1..N : \A j \in 1..N :
            IsConverted(i) /\ IsConverted(j) =>
                LET path == PathJoin(DocDir, files[i])
                    src == Rendered(AbsPath(path))
                IN \A k \in 1..Len(src) :
                      ( /\ src[k].tag = "a"
                        /\ EndsWith(src[k].val, <<".", "m", "d">>)
                        /\ AbsPath(PathJoin(Dirname(path), src[k].val))
                              = AbsPath(PathJoin(DocDir, files[j])) )
                      => /\ combined_parts[i][k + 1].val
                               = <<"#">> \o combined_parts[j][1].id
                         /\ Tail(combined_parts[i][k + 1].val) \in IdsOf(out_html)

(***************************************************************************)
(* Properties of asset naming (SpecNames) and of remote fetch (SpecRerun). *)
(***************************************************************************)
\* the name the claim gives an asset of basename b: b itself when b without
\* its extension is made of ASCII letters and digits only, else the digest of
\* that stem followed by the extension
ClaimedName(b) ==
    LET stem == SplitExt(b)[1]
        ext == SplitExt(b)[2]
    IN IF \A k \in 1..Len(stem) : IsAsciiAlnum(stem[k]) THEN b ELSE Md5(stem) \o ext

\* C5: the name a local image reference is rewritten to depends on the
\* basename of the reference only, and is the digest of the stem plus the
\* extension exactly when the stem is not made of ASCII letters and digits only
C5_CanonicalName ==
    res # <<>> =>
        res.src = ImagesPrefix \o ClaimedName(Basename(Unquote(arg[2])))

\* C6: once a URL has been fetched to its destination, a resolution of a
\* reference to it that starts afterwards, in this run or in a later run on the
\* same tree, never goes to the network for it
C6_NoRefetch ==
    [][\A i \in 1..N :
          (i \in DOMAIN wk' /\ wk[i].phase = "check" /\ wk'[i].phase = "fetch")
              => UrlAt(i) \notin fetchedOk]_vars

(***************************************************************************)
(* Properties of the anchors (SpecAnchor).                                 *)
(***************************************************************************)
RECURSIVE WordRuns(_, _)
\* the maximal runs of word characters of s, lower-cased; cur is the run being read
WordRuns(s, cur) ==
    LET closed == IF cur = <<>> THEN <<>> ELSE <<cur>>
    IN IF s = <<>> THEN closed
       ELSE IF IsWord(Head(s)) THEN WordRuns(Tail(s), Append(cur, LowerChar(Head(s))))
       ELSE closed \o WordRuns(Tail(s), <<>>)

\* the normalized form: the word runs, case-folded, joined by one separator
Normalized(s) == Join(WordRuns(s, <<>>), <<"-">>)

\* the string the anchor of the fragment is derived from: the title, or the
\* file name without its extension
AnchorSource == IF Head(arg) = RawPrefix THEN Tail(arg) ELSE SubSeq(arg, 1, Len(arg) - 3)

\* C8 as stated: the anchor of every fragment, of an inline title or of a
\* chapter file, is the normalized form of the title or of the file stem
C8_AnchorNormalized ==
    res # <<>> => res[1].tag = "a" /\ res[1].id = Normalized(AnchorSource)

\* C8 as amended: the anchor of an inline title is the normalized form of the
\* title, and the anchor of a chapter file is the file_info of the manifest
\* without its extension, unchanged
C8_AnchorByKind ==
    res # <<>> =>
        /\ res[1].tag = "a"
        /\ Head(arg) = RawPrefix =>
              /\ res[1].id = Normalized(AnchorSource)
              /\ res[2].tag = "h1" /\ res[2].text = AnchorSource
        /\ Head(arg) # RawPrefix => res[1].id = AnchorSource

C8_Witness ==
    /\ arg = <<RawPrefix, "G", " ", "s", "!">>
    /\ res # <<>>
    /\ res[1].id = <<"g", "-", "s">>

(***************************************************************************)
(* Properties of the segmentation (SpecSeg).                               *)
(***************************************************************************)
NoHeader(doc) == \A k \in 1..Len(doc) : doc[k].tag \notin {"h1", "h2"}

\* C9: the chapter list is never empty, and a document without h1 and h2
\* gives one chapter that holds the whole document
C9_NeverEmpty ==
    res # <<>> =>
        /\ Len(res.chapters) >= 1
        /\ NoHeader(arg) => Len(res.chapters) = 1 /\ res.chapters[1].content = arg

RECURSIVE TwoLevelToc(_, _)
\* the tree of the claim: an h1 opens a section and is its first chapter, an h2
\* joins the open section, an h2 without an open section is a node of its own
TwoLevelToc(doc, toc) ==
    IF doc = <<>> THEN toc
    ELSE LET e == Head(doc)
             chapter == TocNode("chapter", e.text, <<>>)
         IN IF e.tag = "h1"
            THEN TwoLevelToc(Tail(doc), Append(toc, TocNode("section", e.text, <<chapter>>)))
            ELSE IF e.tag = "h2"
                 THEN IF toc # <<>> /\ toc[Len(toc)].kind = "section"
                      THEN TwoLevelToc(Tail(doc),
                               [toc EXCEPT ![Len(toc)].children = Append(@, chapter)])
                      ELSE TwoLevelToc(Tail(doc), Append(toc, chapter))
                 ELSE TwoLevelToc(Tail(doc), toc)

HeaderTexts(doc) ==
    LET sel == SelectSeq(doc, LAMBDA e : e.tag = "h1" \/ e.tag = "h2")
    IN [k \in 1..Len(sel) |-> sel[k].text]

C14_ManifestFatal ==
    /\ summary = NoFile =>
          /\ mpc \in {"start", "abort"}
          /\ files = <<>> /\ fut = <<>> /\ wk = <<>> /\ combined_parts = <<>>
          /\ unique_copy_tasks = <<>>
          /\ out_html = NoDoc
    /\ mpc = "abort" => summary = NoFile

C14_Witness ==
    /\ mpc = "abort"
    /\ summary = NoFile
    /\ out_html = NoDoc
    /\ fut = <<>>

\* C15: the copy phase lies between the conversion phase and the write: while
\* a slot is empty or a future is not collected no copy task has been
\* submitted, opened or ended, and once the merged document is written every
\* copy task of the run has ended, in success or in failure
C15_CopyAfterConversion ==
    /\ (\E i \in 1..N : combined_parts[i] = None \/ fut[i] # "collected") =>
          /\ mpc \in {"start", "convert"}
          /\ unique_copy_tasks = <<>>
          /\ copy_done = <<>>
    /\ Written =>
          /\ Len(copy_done) = Len(unique_copy_tasks)
          /\ \A k \in 1..Len(copy_done) : copy_done[k] \in {"ok", "failed"}
          /\ out_html # NoDoc

C15_Witness ==
    /\ Written
    /\ N >= 2
    /\ \E k \in 1..Len(copy_done) : copy_done[k] = "ok"
    /\ \E k \in 1..Len(copy_done) : copy_done[k] = "failed"

\* C16: a step that fills slot i is the collection of the future of task i and
\* stores what task i produced, it touches no other slot; a slot that is
\* filled is never changed again; and the slot of a collected future is filled
C16_SlotWrittenOnce ==
    [][\A i \in 1..N :
          /\ combined_parts[i] # None => combined_parts'[i] = combined_parts[i]
          /\ combined_parts[i] = None /\ combined_parts'[i] # None =>
                /\ fut[i] \in {"returned", "raised"}
                /\ fut'[i] = "collected"
                /\ combined_parts'[i] = TaskOutcome(i)
                /\ \A j \in 1..N : j # i => combined_parts'[j] = combined_parts[j]
          /\ fut'[i] = "collected" => combined_parts'[i] # None]_vars

C16_Witness ==
    /\ mpc = "convert"
    /\ N = 3
    /\ \A i \in 1..N : fut[i] = "collected" /\ combined_parts[i] = TaskOutcome(i)
    /\ \E i \in 1..N : wk[i].phase = "raised"
    /\ \E i \in 1..N : IsConverted(i)
    /\ \A i \in 1..N : \A j \in 1..N : i # j => combined_parts[i] # combined_parts[j]

\* the local name every rewritten reference to url must carry
CanonicalRemote(url) ==
    ImagesPrefix \o Basename(DownloadPath(RemoteDst(url), ContentType(url)))

\* C17: within one run no network fetch of a URL is performed once that URL
\* has been fetched, whichever worker asks for it, and every reference to a
\* remote URL that a finished worker has rewritten carries the one canonical
\* local name of that URL
C17_FetchedOnce ==
    [][/\ \A u \in Urls : netOps'[u] > netOps[u] => u \notin fetchedOk
       /\ \A i \in 1..N : wk[i].phase = "end" /\ wk[i].html # <<>> =>
             \A k \in 1..Len(wk[i].html) :
                LET orig == Rendered(AbsPath(PathJoin(DocDir, files[i])))[k].val
                IN wk[i].html[k].tag = "img" /\ IsRemote(Unquote(orig)) =>
                      wk[i].html[k].val \in {orig, CanonicalRemote(RemoteUrl(Unquote(orig)))}
      ]_vars

\* the src or href the renderer gave element k of the fragment of task i
OriginalVal(i, k) == Rendered(AbsPath(PathJoin(DocDir, files[i])))[k].val

\* the step of worker i is the end of a fetch that failed
FetchFailed(i) == wk'[i].failed # wk[i].failed

\* the worker left every src whose fetch failed as it was and rewrote the
\* other references of the fragment (local images, links to chapters)
FailedKeptOthersRewritten(w, i) ==
    \A k \in 1..Len(w.html) :
       LET orig == OriginalVal(i, k)
           decoded == Unquote(orig)
       IN /\ k \in w.failed => w.html[k].val = orig
          /\ w.phase = "end" /\ w.html[k].tag = "img" /\ ~IsRemote(decoded) =>
                w.html[k].val = ImagesPrefix \o Basename(LocalCopyTask(w.dir, decoded)[2])
          /\ w.phase = "end" /\ w.html[k].tag = "a" /\ orig # <<>> =>
                w.html[k].val = RewriteHref(orig) /\ w.html[k].val # orig

\* C18 as stated: a fetch that fails keeps the src as it was, leaves the
\* directory of the images as it found it (no file at the canonical
\* destination comes from the attempt), and the other references of the
\* fragment are rewritten
C18_FailedFetchLeavesNothing ==
    [][\A i \in 1..N : FetchFailed(i) =>
          /\ FailedKeptOthersRewritten(wk'[i], i)
          /\ images' = images]_vars

\* C18 amended: a fetch that fails keeps the src as it was and the other
\* references of the fragment are rewritten; the attempt leaves either
\* nothing or, when the failure came while the data was written, a file of
\* length zero at the destination of the download, and never touches
\* another file
C18_FailedFetchKeepsSrc ==
    [][\A i \in 1..N : FetchFailed(i) =>
          /\ FailedKeptOthersRewritten(wk'[i], i)
          /\ LET url == UrlAt(i)
                 downloaded_path == DownloadPath(RemoteDst(url), ContentType(url))
             IN /\ images' \in {images, Truncate(images, downloaded_path)}
                /\ DataAt(images', downloaded_path) \in {<<>>, DataAt(images, downloaded_path)}
                /\ netOps'[url] = netOps[url] + 1]_vars

C18_Witness ==
    \E i \in 1..N :
       /\ fut[i] = "returned"
       /\ wk[i].failed = {4}
       /\ wk[i].ret[5].val = U2ref
       /\ wk[i].ret[3].val = <<"images", "/", "x", ".", "p", "n", "g">>
       /\ wk[i].ret[6].val # FB
       /\ ImageExists(RemoteDst(U2))
       /\ DataAt(images, RemoteDst(U2)) = <<>>

\* C20: two copy tasks with distinct sources and one destination are both in
\* the list of the copy phase under the plain canonical name, and once the
\* phase is over with both copies done the destination holds the whole data
\* of one of the two sources
C20_LastWriterWins ==
    mpc \in {"write", "rest", "done"} =>
        \A k \in 1..Len(unique_copy_tasks) : \A l \in 1..Len(unique_copy_tasks) :
            LET src_k == unique_copy_tasks[k][1]
                src_l == unique_copy_tasks[l][1]
                dst == unique_copy_tasks[k][2]
            IN src_k # src_l /\ unique_copy_tasks[l][2] = dst
                  /\ copy_done[k] = "ok" /\ copy_done[l] = "ok" =>
                  /\ dst = IMAGES_DIR \o <<"/">> \o Basename(src_k)
                  /\ DataAt(images, dst) \in {FileData(src_k), FileData(src_l)}

(***************************************************************************)
(* Progress of the run (SpecFair).  Under weak fairness of Next a run goes *)
(* on as long as a step is possible; it reaches the write if no state      *)
(* short of the end is without a step and no run goes on for ever.         *)
(***************************************************************************)
\* how far main is from its end
MpcRank ==
    CASE mpc = "start" -> 6
      [] mpc = "convert" -> 5
      [] mpc = "copy" -> 4
      [] mpc = "write" -> 3
      [] mpc = "rest" -> 2
      [] mpc = "done" -> 1
      [] OTHER -> 0

\* the tasks no worker has taken yet
PendingTasks == Cardinality({i \in 1..N : fut[i] = "pending"})

\* the steps a task that was taken has before it: twice the elements its
\* substitution has not passed, one more in front of the existence test,
\* then the collection
TaskRank(i) ==
    CASE fut[i] = "running" ->
            2 + 2 * (Len(wk[i].html) - wk[i].pos) + (IF wk[i].phase = "check" THEN 1 ELSE 0)
      [] fut[i] \in {"returned", "raised"} -> 1
      [] OTHER -> 0

\* the steps copy task k has before it
CopyRank(k) ==
    CASE copy_done[k] = "pending" -> 2
      [] copy_done[k] = "opened" -> 1
      [] OTHER -> 0

RECURSIVE SumTo(_, _)
SumTo(Rank(_), n) == IF n = 0 THEN 0 ELSE Rank(n) + SumTo(Rank, n - 1)

\* the work left to the tasks that were taken and to the copy pool
WorkRank == SumTo(TaskRank, N) + SumTo(CopyRank, Len(copy_done))

\* some step of the run is possible, read off the conditions of the actions
CanStep ==
    \/ mpc \in {"start", "write", "rest"}
    \/ /\ mpc = "convert"
       /\ \/ \E i \in 1..N : Dispatchable(i)
          \/ \E i \in 1..N : fut[i] = "running" /\ wk[i].phase \in {"check", "fetch"}
          \/ \E i \in 1..N : fut[i] \in {"returned", "raised"}
          \/ AllCollected
    \/ /\ mpc = "copy"
       /\ \/ \E k \in 1..Len(copy_done) : copy_done[k] \in {"pending", "opened"}
          \/ \A k \in 1..Len(copy_done) : copy_done[k] \in {"ok", "failed"}

\* a run whose manifest can be opened is not aborted and is, short of its
\* end, never without a step; at its end the merged document is written
NeverStuck ==
    summary # NoFile =>
        /\ mpc # "abort"
        /\ mpc # "done" => CanStep
        /\ mpc = "done" => out_html # NoDoc

\* C13: a run whose manifest can be opened leads to the merged document being
\* written whichever tasks raise, fetches fail and copies fail on the way:
\* every step leaves a state that is not aborted and not stuck short of the
\* write, and every step brings the run nearer to its end (main moves on, or
\* a task is taken, or a task or a copy that was taken moves on), so that
\* under weak fairness of Next the run reaches the write
C13_AlwaysWritten ==
    [][/\ NeverStuck'
       /\ \/ MpcRank' < MpcRank
          \/ MpcRank' = MpcRank /\ PendingTasks' < PendingTasks
          \/ MpcRank' = MpcRank /\ PendingTasks' = PendingTasks /\ WorkRank' < WorkRank]_vars

C13_Witness ==
    /\ Written
    /\ out_html # NoDoc
    /\ \E i \in 1..N : wk[i].phase = "raised"
    /\ \E i \in 1..N : wk[i].failed # {}
    /\ \E k \in 1..Len(copy_done) : copy_done[k] = "failed"

(***************************************************************************)
(* Properties of the reference list (SpecManifest).                        *)
(***************************************************************************)
\* a line of the form "## <title>"
IsHeadingLine(line) == Len(line) > 3 /\ SubSeq(line, 1, 3) = <<"#", "#", " ">>
TitleOf(line) == SubSeq(line, 4, Len(line))

\* a reference of kind InlineTitle
IsInline(ref) == ref # <<>> /\ ref[1] = RawPrefix

\* C11: the inline titles of the list are, in order, the titles of the lines
\* "## <title>" of the manifest, each verbatim whatever characters it holds,
\* no other line gives one, and the title of a heading line stands right
\* after the references of the lines before it
C11_HeadingsBecomeTitles ==
    res # <<>> =>
        /\ LET headings == SelectSeq(arg, IsHeadingLine)
           IN SelectSeq(res.files, IsInline)
                 = [k \in 1..Len(headings) |-> <<RawPrefix>> \o TitleOf(headings[k])]
        /\ \A n \in 1..Len(arg) : IsHeadingLine(arg[n]) =>
              LET earlier == Len(ParseManifest(SubSeq(arg, 1, n - 1)))
              IN /\ Len(res.files) > earlier
                 /\ res.files[earlier + 1] = <<RawPrefix>> \o TitleOf(arg[n])

RECURSIVE ScanLinks(_, _, _, _)
\* the targets of the links [label](target) of a line, read from left to
\* right from character k on: a "[" opens a label, the first "](" after it
\* opens the target at start, the first ")" after that closes the link
ScanLinks(line, k, mode, start) ==
    IF k > Len(line) THEN <<>>
    ELSE IF mode = "text"
         THEN ScanLinks(line, k + 1, IF line[k] = "[" THEN "label" ELSE "text", start)
    ELSE IF mode = "label"
         THEN IF line[k] = "]" /\ k < Len(line) /\ line[k + 1] = "("
              THEN ScanLinks(line, k + 2, "target", k + 2)
              ELSE ScanLinks(line, k + 1, "label", start)
    ELSE IF line[k] = ")"
         THEN <<SubSeq(line, start, k - 1)>> \o ScanLinks(line, k + 1, "text", start)
         ELSE ScanLinks(line, k + 1, "target", start)

\* a line the heading rewrite leaves alone, or a heading line whose title
\* holds no bracket and no parenthesis
NoHeadingMark(line) ==
    \A k \in 1..(Len(line) - 3) : SubSeq(line, k, k + 2) # <<"#", "#", " ">>
PlainTitle(line) ==
    IsHeadingLine(line) /\ \A k \in 4..Len(line) : line[k] \notin {"[", "]", "(", ")"}

\* the references a line stands for: its title, or the targets of its links
LineReferences(line) ==
    IF PlainTitle(line) THEN <<<<RawPrefix>> \o TitleOf(line)>>
    ELSE ScanLinks(line, 1, "text", 1)

\* C12: for a manifest of link lines and plain heading lines the list is, in
\* document order, one reference per link with the target of the link as its
\* path (and one inline title per heading line); the tasks carry the indices
\* 0..N-1 in that order, one slot is allocated per reference, and the
\* references of link lines are file references
C12_ReferencesAreLinks ==
    res # <<>> /\ (\A n \in 1..Len(arg) : NoHeadingMark(arg[n]) \/ PlainTitle(arg[n])) =>
        LET expected == Concat([n \in 1..Len(arg) |-> LineReferences(arg[n])])
        IN /\ res.files = expected
           /\ Len(res.future_to_index) = Len(expected)
           /\ Len(res.combined_parts) = Len(expected)
           /\ \A k \in 1..Len(expected) : res.future_to_index[k] = <<k - 1, expected[k]>>
           /\ \A n \in 1..Len(arg) : NoHeadingMark(arg[n]) =>
                 \A k \in 1..Len(LineReferences(arg[n])) :
                    ~IsInline(LineReferences(arg[n])[k])

C12_Witness ==
    /\ res # <<>>
    /\ arg = <<LineLinkB, LineHeading, LineTwoLinks>>
    /\ res.files = <<<<"b">>, <<RawPrefix, "t">>, <<"a">>, <<"b">>>>
    /\ res.future_to_index[4] = <<3, <<"b">>>>

(***************************************************************************)
(* Properties of the segmentation of a document with nesting (SpecTree).   *)
(***************************************************************************)
\* the chapters that hold the element at position m
ChaptersHolding(m) ==
    {idx \in 1..Len(res.chapters) :
        \E i \in 1..Len(res.chapters[idx].content) :
            res.chapters[idx].content[i] = arg.soup[m]}

\* C19: each chapter holds its heading and every element after it in the
\* document up to, but excluding, the next h1 or h2 (or up to the end of the
\* document); no element is in two chapters, and every element from the
\* first heading on is in exactly one chapter
C19_ChaptersPartition ==
    res # <<>> =>
        LET soup == arg.soup
            n == Len(res.chapters)
        IN /\ n = Cardinality(HeaderPositions(soup))
           /\ \A idx \in 1..n :
                 LET k == HeaderAt(soup, idx)
                     next == IF idx < n THEN HeaderAt(soup, idx + 1) ELSE Len(soup) + 1
                 IN res.chapters[idx].content = SubSeq(soup, k, next - 1)
           /\ \A m \in 1..Len(soup) : Cardinality(ChaptersHolding(m)) <= 1
           /\ \A m \in 1..Len(soup) :
                 (\E k \in HeaderPositions(soup) : k <= m) =>
                     Cardinality(ChaptersHolding(m)) = 1

(***************************************************************************)
(* Properties of the hand-over from the conversion to the copy phase       *)
(* (Spec).                                                                 *)
(***************************************************************************)
\* the chapter file of reference i as the renderer gives it, and the
\* positions of its local image references
RenderedOf(i) == Rendered(AbsPath(PathJoin(DocDir, files[i])))
IsLocalRef(e) ==
    LET decoded == Unquote(e.val)
    IN e.tag = "img" /\ decoded # <<>> /\ ~IsRemote(decoded) /\ Scheme(decoded) = <<>>
LocalRefs(i) ==
    LET html == RenderedOf(i)
    IN {k \in 1..Len(html) : IsLocalRef(html[k])}

\* where the slot of reference i begins in the merged document, and the part
\* of the merged document that is the slot of reference i
SlotStart(i) == Len(Concat([m \in 1..(i - 1) |-> combined_parts[m]]))
SlotText(i) == SubSeq(out_html, SlotStart(i) + 1, SlotStart(i) + Len(combined_parts[i]))

\* the local image reference k of chapter i as it stands in the merged
\* document (the anchor of the chapter comes first)
MergedRef(i, k) == out_html[SlotStart(i) + 1 + k]

\* the copy tasks the local image references of chapter i stand for
OwnTasks(i) ==
    LET refs == SelectSeq(RenderedOf(i), IsLocalRef)
        dir == Dirname(PathJoin(DocDir, files[i]))
    IN [k \in 1..Len(refs) |-> LocalCopyTask(dir, Unquote(refs[k].val))]

RECURSIVE ReturnedTasks(_)
\* the copy tasks in the return values of the tasks among the first n that
\* returned
ReturnedTasks(n) ==
    IF n = 0 THEN EmptyBag
    ELSE IF wk[n].phase = "end" THEN ReturnedTasks(n - 1) (+) SeqToBag(wk[n].copy_tasks)
         ELSE ReturnedTasks(n - 1)

\* C21: once the merged document is written, every local image reference
\* that stands in it rewritten to images/<name> has, in the list the copy
\* phase ran, a task with the destination build/images/<name>, and that task
\* was run; the slot of a chapter whose task raised holds the diagnostic and
\* no image at all, and the accumulated tasks are those in the return values
\* of the tasks that returned and no others
C21_NoCopyTaskLost ==
    Written =>
        /\ \A i \in 1..N : IsConverted(i) =>
              \A k \in LocalRefs(i) :
                  LET val == MergedRef(i, k).val
                  IN StartsWith(val, ImagesPrefix) =>
                         \E t \in 1..Len(unique_copy_tasks) :
                            /\ unique_copy_tasks[t][2]
                                  = PathJoin(IMAGES_DIR,
                                             SubSeq(val, Len(ImagesPrefix) + 1, Len(val)))
                            /\ copy_done[t] \in {"ok", "failed"}
        /\ \A i \in 1..N : wk[i].phase = "raised" =>
              /\ SlotText(i) = ErrorFragment(files[i])
              /\ \A k \in 1..Len(SlotText(i)) : SlotText(i)[k].tag # "img"
        /\ all_copy_tasks = ReturnedTasks(N)

C21_Witness ==
    /\ Written
    /\ N = 2
    /\ files = <<FA, FB>>
    /\ IsConverted(1)
    /\ \A k \in LocalRefs(1) : StartsWith(MergedRef(1, k).val, ImagesPrefix)
    /\ wk[1].copy_tasks = OwnTasks(1)
    /\ wk[2].phase = "raised"
    /\ LocalRefs(2) # {}
    /\ \E k \in 1..Len(OwnTasks(2)) :
          \A t \in 1..Len(unique_copy_tasks) : unique_copy_tasks[t] # OwnTasks(2)[k]
    /\ Len(unique_copy_tasks) = 1
    /\ copy_done = <<"ok">>

====
